---- MODULE Spec2Model ----
(***************************************************************************)
(* Model of sd-local's launch package (src/launch/docker.go): the docker   *)
(* runner (setupBin, runBuild, execDockerCommand, kill, waitForProcess,    *)
(* clean), the launcher (Run, Kill, Clean) and the build entry assembler   *)
(* (mergeEnv, createBuildEntry).                                           *)
(*                                                                         *)
(* A Go string is a sequence of tokens, so that fmt.Sprintf and append on  *)
(* strings are sequence concatenation.  An EnvVar map is a function whose  *)
(* DOMAIN is the map's key set.                                            *)
(***************************************************************************)
EXTENDS Integers, Sequences, FiniteSets, TLC

VARIABLES
    option,          \* the Option handed to New
    buildEntry,      \* launch.buildEntry, the result of createBuildEntry
    envIn,           \* default layer handed to mergeEnv
    merged,          \* what mergeEnv returned (<<>> before it ran)
    commands,        \* docker.commands, the process registry
    mutex,           \* docker.mutex: "free" or "held"
    mpc,             \* position of the thread that calls Run and Clean
    step,            \* which execDockerCommand call of the current function
    ephase,          \* position inside execDockerCommand
    setupResult,     \* what setupBin returned
    buildResult,     \* what runBuild returned
    runResult,       \* what Run returned
    cleanWarn,       \* the removals clean logged a warning for
    kpc,             \* position of the thread that calls Kill
    sig,             \* the signal handed to kill
    snapLen,         \* length of d.commands when kill's range loop started
    ki,              \* index of kill's range loop
    killedCmds,      \* kill's killedCmds, as registry indices
    retryCnt,        \* waitForProcess's retryCnt
    finish,          \* waitForProcess's finish
    wi,              \* index of waitForProcess's range loop
    attempted,       \* entries kill attempted signal delivery on, this call
    seenExited,      \* entries kill saw with ProcessState # nil, this call
    failedDelivery,  \* entries whose delivery returned an error, this call
    sudoKills,       \* the `sudo kill` commands kill spawned, this call
    killResult,      \* what waitForProcess returned to kill
    kills            \* number of calls of kill so far

envVars == <<option, buildEntry, envIn, merged>>
mainVars == <<commands, mpc, step, ephase, setupResult, buildResult, runResult, cleanWarn>>
killVars == <<mutex, kpc, sig, snapLen, ki, killedCmds, retryCnt, finish, wi,
              attempted, seenExited, failedDelivery, sudoKills, killResult, kills>>
vars == <<envVars, mainVars, killVars>>

----------------------------------------------------------------------------
(* Bounds *)

\* how many times Kill is called on one launcher
MaxKills == 1

----------------------------------------------------------------------------
(* Constants of the program *)

LogFile == <<"builds.log">>
scmHost == <<"screwdriver.cd">>
orgRepo == <<"sd-local/local-build">>
defaultArtDir == <<"/sd/workspace/artifacts">>
apiVersion == <<"v4">>
storeVersion == <<"v1">>
retryMax == 9
numSig == 65

----------------------------------------------------------------------------
(* net/url and path, as far as createBuildEntry uses them.  A URL string   *)
(* is <<scheme://host, "/", segment, "/", ...>>.                           *)

\* tokens url.Parse rejects: an invalid percent escape, a control character
BadTokens == {"%zz", "\\x7f"}

\* url.Parse's error
ParseFails(s) ==
    \/ \E i \in 1..Len(s) : s[i] \in BadTokens
    \/ (Len(s) > 0 /\ s[1] = ":")

RECURSIVE Segments(_)
\* the non-empty elements of a path, as path.Join/Clean keeps them
Segments(p) ==
    IF p = <<>> THEN <<>>
    ELSE IF Head(p) = "/" THEN Segments(Tail(p))
    ELSE <<Head(p)>> \o Segments(Tail(p))

\* url.Parse: the URL's scheme and host (empty for a bare path), and its Path
urlParse(s) ==
    IF s = <<>> \/ Head(s) = "/" THEN [base |-> <<>>, Path |-> s]
    ELSE [base |-> <<Head(s)>>, Path |-> Tail(s)]

RECURSIVE Slashed(_)
\* a "/" before every segment
Slashed(segs) ==
    IF segs = <<>> THEN <<>> ELSE <<"/", Head(segs)>> \o Slashed(Tail(segs))

\* path.Join(p, version): empty elements are dropped and the result is
\* cleaned; it is rooted only when p is
pathJoin(p, version) ==
    IF p # <<>> /\ Head(p) = "/" THEN Slashed(Segments(p) \o version)
    ELSE Tail(Slashed(Segments(p) \o version))

\* (*URL).String(): a "/" is written before a relative path that follows a host
urlString(u, p) ==
    u.base \o (IF p # <<>> /\ Head(p) # "/" /\ u.base # <<>> THEN <<"/">> ELSE <<>>) \o p

\* mutant: the fallback to the raw string on a parse error is lost
versionedURL_noFallback(raw, version) ==
    IF ParseFails(raw) THEN <<>>
    ELSE urlString(urlParse(raw), pathJoin(urlParse(raw).Path, version))

\* lines 339-345 (and 347-353): the versioned URL, or the raw string
versionedURL(raw, version) ==
    IF ParseFails(raw) THEN raw
    ELSE urlString(urlParse(raw), pathJoin(urlParse(raw).Path, version))

----------------------------------------------------------------------------
(* mergeEnv and createBuildEntry *)

\* `for k, v := range src { dst[k] = v }`
Assign(dst, src) ==
    [k \in (DOMAIN dst) \cup (DOMAIN src) |-> IF k \in DOMAIN src THEN src[k] ELSE dst[k]]

\* mutant: the two loops in the other order
mergeEnv_jobLast(env, jobEnv, optionEnv) == <<Assign(Assign(env, optionEnv), jobEnv)>>

mergeEnv(env, jobEnv, optionEnv) == <<Assign(Assign(env, jobEnv), optionEnv)>>

\* lines 355-360
defaultEnv(opt) ==
    [k \in {"SD_TOKEN", "SD_ARTIFACTS_DIR", "SD_API_URL", "SD_STORE_URL"} |->
        CASE k = "SD_TOKEN" -> opt.JWT
          [] k = "SD_ARTIFACTS_DIR" -> defaultArtDir
          [] k = "SD_API_URL" -> versionedURL(opt.APIURL, apiVersion)
          [] k = "SD_STORE_URL" -> versionedURL(opt.StoreURL, storeVersion)]

createBuildEntry(opt) ==
    [Environment |-> mergeEnv(defaultEnv(opt), opt.JobEnv, opt.OptionEnv),
     Image |-> opt.Image, JobName |-> opt.JobName,
     ArtifactsPath |-> opt.ArtifactsPath, MemoryLimit |-> opt.Memory,
     SrcPath |-> opt.SrcPath, UseSudo |-> opt.UseSudo,
     UsePrivileged |-> opt.UsePrivileged, Meta |-> opt.Meta]

----------------------------------------------------------------------------
(* The docker runner: command lines *)

\* docker.volume, docker.habVolume and the setup image of newDocker
volume == <<"SD_LAUNCH_BIN">>
habVolume == <<"SD_LAUNCH_HAB">>
setupImage == <<"launcher">>
setupImageVersion == <<"stable">>

\* the keys of an environment, in the order encoding/json writes them
KeyOrder == <<"FOO", "SD_API_URL", "SD_ARTIFACTS_DIR", "SD_STORE_URL", "SD_TOKEN">>

RECURSIVE envJSON(_, _)
\* encoding/json on one EnvVar: its keys sorted, each with its value
envJSON(env, keys) ==
    IF keys = <<>> THEN <<>>
    ELSE (IF Head(keys) \in DOMAIN env THEN <<Head(keys), ":">> \o env[Head(keys)] \o <<",">>
          ELSE <<>>) \o envJSON(env, Tail(keys))

\* json.Marshal(buildEntry) fails on a Meta value it has no encoding for
marshalFails(be) == be.Meta = "unsupported"

\* string(configJSON): the fields without a `json:"-"` tag
configJSON(be) ==
    <<"{environment:[{">> \o envJSON(be.Environment[1], KeyOrder) \o <<"}],meta:", be.Meta, "}">>

\* filepath.Join(containerArtDir, LogFile)
logfilePath(containerArtDir) ==
    IF containerArtDir = <<>> THEN LogFile ELSE containerArtDir \o <<"/">> \o LogFile

\* line 109: dockerCommandOptions before the optional flags
standardOptions(be) ==
    LET environment == be.Environment[1]
        containerArtDir == environment["SD_ARTIFACTS_DIR"]
        srcVol == be.SrcPath \o <<"/:/sd/workspace/src/">> \o scmHost \o <<"/">> \o orgRepo
        artVol == be.ArtifactsPath \o <<"/:">> \o containerArtDir
        binVol == volume \o <<":", "/opt/sd">>
        habVol == habVolume \o <<":", "/opt/sd/hab">>
    IN  << <<"--rm">>, <<"-v">>, srcVol, <<"-v">>, artVol, <<"-v">>, binVol, <<"-v">>, habVol,
           be.Image, <<"/opt/sd/local_run.sh">>, configJSON(be), be.JobName,
           environment["SD_API_URL"], environment["SD_STORE_URL"],
           logfilePath(containerArtDir) >>

\* mutant: the privileged flag is prepended before the memory-limit flag
runArgs_memoryFirst(be) ==
    LET o1 == IF be.UsePrivileged THEN << <<"--privileged">> >> \o standardOptions(be)
              ELSE standardOptions(be)
        o2 == IF be.MemoryLimit # <<>> THEN << <<"-m">> \o be.MemoryLimit >> \o o1 ELSE o1
    IN  << <<"container">>, <<"run">> >> \o o2

\* lines 108-119: the arguments of the run invocation
runArgs(be) ==
    LET o1 == IF be.MemoryLimit # <<>>
              THEN << <<"-m">> \o be.MemoryLimit >> \o standardOptions(be)
              ELSE standardOptions(be)
        o2 == IF be.UsePrivileged THEN << <<"--privileged">> >> \o o1 ELSE o1
    IN  << <<"container">>, <<"run">> >> \o o2

\* the arguments of the step-th execDockerCommand call of setupBin
setupBinArgs(n) ==
    LET mount == volume \o <<":/opt/sd/">>
        habMount == habVolume \o <<":/hab">>
        image == setupImage \o <<":">> \o setupImageVersion
    IN  CASE n = 1 -> << <<"volume">>, <<"create">>, <<"--name">>, volume >>
          [] n = 2 -> << <<"volume">>, <<"create">>, <<"--name">>, habVolume >>
          [] n = 3 -> << <<"pull">>, image >>
          [] n = 4 -> << <<"container">>, <<"run">>, <<"--rm">>, <<"-v">>, mount, <<"-v">>,
                         habMount, image, <<"--entrypoint">>, <<"/bin/echo set up bin">> >>

\* the arguments of the step-th execDockerCommand call of runBuild
runBuildArgs(be, n) ==
    IF n = 1 THEN << <<"pull">>, be.Image >> ELSE runArgs(be)

\* the arguments of the step-th execDockerCommand call of clean
cleanArgs(n) ==
    IF n = 1 THEN << <<"volume">>, <<"rm">>, <<"--force">>, volume >>
    ELSE << <<"volume">>, <<"rm">>, <<"--force">>, habVolume >>

\* lines 128-131: the command line execDockerCommand builds
commandLine(useSudo, args) ==
    LET cl == << <<"docker">> >> \o args
    IN  IF useSudo THEN << <<"sudo">> >> \o cl ELSE cl

----------------------------------------------------------------------------
(* The process registry.  An entry is one *exec.Cmd:                       *)
(*   st = "created"      appended, cmd.Run not yet in Start                *)
(*   st = "startfailed"  Start returned an error: Process stays nil        *)
(*   st = "running"      Start set Process; ProcessState is nil            *)
(*   st = "exited"       Wait set ProcessState; code is the exit code      *)

\* v.Process != nil
hasProcess(c) == c.st \in {"running", "exited"}

\* v.ProcessState != nil
hasProcessState(c) == c.st = "exited"

\* docker.useSudo, set by New from the Option
useSudo == option.UseSudo

\* the entry execDockerCommand is working on
last == Len(commands)

\* the program has not died of a runtime panic
alive == kpc # "panicked"

----------------------------------------------------------------------------
(* The thread that calls Run and then Clean *)

\* mutant: Run goes on to runBuild whatever setupBin returned
RunAfterSetupBin_errorIgnored(res) ==
    /\ mpc' = "runBuild"
    /\ step' = 0
    /\ ephase' = "marshal"
    /\ UNCHANGED runResult

\* lines 399-403 of Run, once setupBin has returned res
RunAfterSetupBin(res) ==
    IF res = "err"
    THEN /\ runResult' = "err"
         /\ mpc' = "runReturned"
         /\ UNCHANGED <<step, ephase>>
    ELSE /\ mpc' = "runBuild"
         /\ step' = 0
         /\ ephase' = "marshal"
         /\ UNCHANGED runResult

\* lines 403-408 of Run, once runBuild has returned res
RunAfterRunBuild(res) ==
    /\ runResult' = res
    /\ mpc' = "runReturned"
    /\ UNCHANGED <<step, ephase>>

\* mutant: the error of the hab volume's creation is not checked
setupBin_habUnchecked(err) ==
    /\ UNCHANGED <<buildResult, cleanWarn>>
    /\ IF err /\ step # 2
       THEN setupResult' = "err" /\ RunAfterSetupBin("err")
       ELSE IF step < 4
            THEN /\ step' = step + 1
                 /\ ephase' = "append"
                 /\ UNCHANGED <<mpc, setupResult, runResult>>
            ELSE setupResult' = "ok" /\ RunAfterSetupBin("ok")

\* setupBin, from the return of its step-th execDockerCommand with err
setupBin(err) ==
    /\ UNCHANGED <<buildResult, cleanWarn>>
    /\ IF err
       THEN setupResult' = "err" /\ RunAfterSetupBin("err")
       ELSE IF step < 4
            THEN /\ step' = step + 1
                 /\ ephase' = "append"
                 /\ UNCHANGED <<mpc, setupResult, runResult>>
            ELSE setupResult' = "ok" /\ RunAfterSetupBin("ok")

\* mutant: the error of the pull is not checked
runBuild_pullUnchecked(err) ==
    /\ UNCHANGED <<setupResult, cleanWarn>>
    /\ IF err /\ step # 1
       THEN buildResult' = "err" /\ RunAfterRunBuild("err")
       ELSE IF step = 1
            THEN /\ step' = 2
                 /\ ephase' = "append"
                 /\ UNCHANGED <<mpc, buildResult, runResult>>
            ELSE buildResult' = "ok" /\ RunAfterRunBuild("ok")

\* runBuild, from the return of its step-th execDockerCommand with err
runBuild(err) ==
    /\ UNCHANGED <<setupResult, cleanWarn>>
    /\ IF err
       THEN buildResult' = "err" /\ RunAfterRunBuild("err")
       ELSE IF step = 1
            THEN /\ step' = 2
                 /\ ephase' = "append"
                 /\ UNCHANGED <<mpc, buildResult, runResult>>
            ELSE buildResult' = "ok" /\ RunAfterRunBuild("ok")

\* mutant: clean gives up when the first removal fails
clean_failFast(err) ==
    /\ UNCHANGED <<setupResult, buildResult, runResult>>
    /\ cleanWarn' = IF err THEN cleanWarn \cup {step} ELSE cleanWarn
    /\ IF step = 1 /\ ~err
       THEN step' = 2 /\ ephase' = "append" /\ UNCHANGED mpc
       ELSE mpc' = "cleanReturned" /\ UNCHANGED <<step, ephase>>

\* clean, from the return of its step-th execDockerCommand with err
clean(err) ==
    /\ UNCHANGED <<setupResult, buildResult, runResult>>
    /\ cleanWarn' = IF err THEN cleanWarn \cup {step} ELSE cleanWarn
    /\ IF step = 1
       THEN step' = 2 /\ ephase' = "append" /\ UNCHANGED mpc
       ELSE mpc' = "cleanReturned" /\ UNCHANGED <<step, ephase>>

\* execDockerCommand returns err to the function that called it
Return(err) ==
    CASE mpc = "setupBin" -> setupBin(err)
      [] mpc = "runBuild" -> runBuild(err)
      [] mpc = "clean" -> clean(err)

\* the arguments of the call of execDockerCommand the thread is at
currentArgs ==
    CASE mpc = "setupBin" -> setupBinArgs(step)
      [] mpc = "runBuild" -> runBuildArgs(buildEntry, step)
      [] mpc = "clean" -> cleanArgs(step)

\* Launcher.Run up to the call of setupBin: the lookup of docker
Run ==
    /\ alive /\ mpc = "idle"
    /\ \E found \in BOOLEAN :
         IF found
         THEN /\ mpc' = "setupBin"
              /\ step' = 1
              /\ ephase' = "append"
              /\ UNCHANGED runResult
         ELSE /\ runResult' = "err"
              /\ mpc' = "runReturned"
              /\ UNCHANGED <<step, ephase>>
    /\ UNCHANGED <<commands, setupResult, buildResult, cleanWarn>>
    /\ UNCHANGED <<envVars, killVars>>

\* runBuild up to its first execDockerCommand: json.Marshal of the entry
runBuildMarshal ==
    /\ alive /\ mpc = "runBuild" /\ ephase = "marshal"
    /\ IF marshalFails(buildEntry)
       THEN buildResult' = "err" /\ RunAfterRunBuild("err")
       ELSE /\ step' = 1
            /\ ephase' = "append"
            /\ UNCHANGED <<mpc, buildResult, runResult>>
    /\ UNCHANGED <<commands, setupResult, cleanWarn>>
    /\ UNCHANGED <<envVars, killVars>>

\* Launcher.Clean: the call of clean
Clean ==
    /\ alive /\ mpc = "runReturned"
    /\ mpc' = "clean"
    /\ step' = 1
    /\ ephase' = "append"
    /\ UNCHANGED <<commands, setupResult, buildResult, runResult, cleanWarn>>
    /\ UNCHANGED <<envVars, killVars>>

\* mutant: the registry keeps only the command in flight
appendCommand_replace(cmds, cmd) == <<cmd>>

\* line 138: d.commands = append(d.commands, cmd)
appendCommand(cmds, cmd) == Append(cmds, cmd)

\* execDockerCommand, lines 128-138: the command is built and appended
execAppend ==
    /\ alive /\ mpc \in {"setupBin", "runBuild", "clean"} /\ ephase = "append"
    /\ commands' = appendCommand(commands,
                     [by |-> mpc, n |-> step, argv |-> commandLine(useSudo, currentArgs),
                      st |-> "created", code |-> 0])
    /\ ephase' = "run"
    /\ UNCHANGED <<mpc, step, setupResult, buildResult, runResult, cleanWarn>>
    /\ UNCHANGED <<envVars, killVars>>

\* cmd.Run, line 141: Start either sets Process or fails, and then Run
\* returns the error at once
cmdStart ==
    /\ alive /\ ephase = "run" /\ commands[last].st = "created"
    /\ \E ok \in BOOLEAN :
         IF ok
         THEN /\ commands' = [commands EXCEPT ![last].st = "running"]
              /\ UNCHANGED <<mpc, step, ephase, setupResult, buildResult, runResult, cleanWarn>>
         ELSE /\ commands' = [commands EXCEPT ![last].st = "startfailed"]
              /\ Return(TRUE)
    /\ UNCHANGED <<envVars, killVars>>

\* cmd.Run, line 141: the process exits, Wait sets ProcessState and Run
\* returns an error for a non-zero exit code (lines 142-146)
cmdWait ==
    /\ alive /\ ephase = "run" /\ commands[last].st = "running"
    /\ \E code \in {0, 1} :
         /\ commands' = [commands EXCEPT ![last].st = "exited", ![last].code = code]
         /\ Return(code # 0)
    /\ UNCHANGED <<envVars, killVars>>

----------------------------------------------------------------------------
(* The thread that calls Kill *)

\* the os.Signal values kill is called with: SIGTERM, the highest numbered
\* signal, a syscall.Signal beyond it, and an os.Signal of another type
Signals ==
    {[type |-> "syscall", num |-> 15], [type |-> "syscall", num |-> 64],
     [type |-> "syscall", num |-> 65], [type |-> "other", num |-> 0]}

signum(s) ==
    IF s.type = "syscall"
    THEN IF s.num < 0 \/ s.num >= numSig THEN -1 ELSE s.num
    ELSE -1

\* line 161: the command of the elevated kill of registry entry i
sudoKillCommand(s, i) == <<"sudo", "kill", <<"-", signum(s)>>, <<"pid", i>> >>

\* the errors delivery to entry c can end with (TRUE: err == nil).
\* Process.Signal fails for a finished process, for an os.Signal that is no
\* syscall.Signal and for a number the kernel rejects; `sudo kill` is an
\* external command: it fails for a finished process and may fail otherwise
deliveryOutcomes(c, s) ==
    IF c.st = "exited" THEN {FALSE}
    ELSE IF useSudo THEN BOOLEAN
    ELSE {s.type = "syscall" /\ s.num >= 0 /\ s.num < numSig}

\* mutant: an entry seen as exited is signalled all the same
killSkips_never(observed) == FALSE

\* line 155: whether kill skips an entry, given what it read of ProcessState
killSkips(observed) == observed

\* mutant: the retry limit ends the wait with success
waitOutcome_noTimeout(fin, cnt) ==
    IF fin \/ cnt > retryMax THEN "ok" ELSE "again"

\* mutant: the timeout comes one tick early
waitOutcome_offByOne(fin, cnt) ==
    IF fin THEN "ok"
    ELSE IF cnt >= retryMax THEN "timeout"
    ELSE "again"

\* lines 214-220: what waitForProcess does after inspecting every process
waitOutcome(fin, cnt) ==
    IF fin THEN "ok"
    ELSE IF cnt > retryMax THEN "timeout"
    ELSE "again"

\* mutant: the entry joins killedCmds whatever delivery returned
killedAfter_always(killed, i, ok) == Append(killed, i)

\* lines 167-171: killedCmds after delivery to entry i ended with ok
killedAfter(killed, i, ok) == IF ok THEN Append(killed, i) ELSE killed

\* Launcher.Kill, kill lines 149-152: the range loop takes the slice as it is
Kill ==
    /\ alive /\ kpc = "idle" /\ kills < MaxKills
    /\ \E s \in Signals : sig' = s
    /\ kills' = kills + 1
    /\ snapLen' = Len(commands)
    /\ ki' = 1
    /\ killedCmds' = <<>>
    /\ attempted' = {}
    /\ seenExited' = {}
    /\ failedDelivery' = {}
    /\ sudoKills' = <<>>
    /\ killResult' = "none"
    /\ kpc' = "loop"
    /\ UNCHANGED <<mutex, retryCnt, finish, wi>>
    /\ UNCHANGED <<envVars, mainVars>>

\* line 154: d.mutex.Lock() blocks while the mutex is held
killLock ==
    /\ alive /\ kpc = "loop" /\ ki <= snapLen
    /\ mutex = "free"
    /\ mutex' = "held"
    /\ kpc' = "check"
    /\ UNCHANGED <<sig, snapLen, ki, killedCmds, retryCnt, finish, wi, attempted,
                   seenExited, failedDelivery, sudoKills, killResult, kills>>
    /\ UNCHANGED <<envVars, mainVars>>

\* lines 155-158: `continue` leaves the mutex locked
killCheck ==
    /\ alive /\ kpc = "check"
    /\ LET observed == hasProcessState(commands[ki])
       IN  /\ seenExited' = IF observed THEN seenExited \cup {ki} ELSE seenExited
           /\ IF killSkips(observed)
              THEN /\ ki' = ki + 1
                   /\ kpc' = "loop"
                   /\ UNCHANGED mutex
              ELSE /\ mutex' = "free"
                   /\ kpc' = "signal"
                   /\ UNCHANGED ki
    /\ UNCHANGED <<sig, snapLen, killedCmds, retryCnt, finish, wi, attempted,
                   failedDelivery, sudoKills, killResult, kills>>
    /\ UNCHANGED <<envVars, mainVars>>

\* lines 160-171: delivery.  v.Process is nil for an entry that has not
\* started, and v.Process.Pid or v.Process.Signal then panics
killSignal ==
    /\ alive /\ kpc = "signal"
    /\ attempted' = attempted \cup {ki}
    /\ IF ~hasProcess(commands[ki])
       THEN /\ kpc' = "panicked"
            /\ UNCHANGED <<ki, killedCmds, failedDelivery, sudoKills>>
       ELSE /\ sudoKills' = IF useSudo THEN Append(sudoKills, sudoKillCommand(sig, ki))
                            ELSE sudoKills
            /\ \E ok \in deliveryOutcomes(commands[ki], sig) :
                 /\ killedCmds' = killedAfter(killedCmds, ki, ok)
                 /\ failedDelivery' = IF ok THEN failedDelivery ELSE failedDelivery \cup {ki}
            /\ ki' = ki + 1
            /\ kpc' = "loop"
    /\ UNCHANGED <<mutex, sig, snapLen, retryCnt, finish, wi, seenExited, killResult, kills>>
    /\ UNCHANGED <<envVars, mainVars>>

\* line 174 and lines 197-199: the loop is over, waitForProcess starts
waitForProcess ==
    /\ alive /\ kpc = "loop" /\ ki > snapLen
    /\ retryCnt' = 0
    /\ kpc' = "tick"
    /\ UNCHANGED <<mutex, sig, snapLen, ki, killedCmds, finish, wi, attempted,
                   seenExited, failedDelivery, sudoKills, killResult, kills>>
    /\ UNCHANGED <<envVars, mainVars>>

\* lines 202-205: a tick of the ticker
waitTick ==
    /\ alive /\ kpc = "tick"
    /\ retryCnt' = retryCnt + 1
    /\ finish' = TRUE
    /\ wi' = 1
    /\ kpc' = "wloop"
    /\ UNCHANGED <<mutex, sig, snapLen, ki, killedCmds, attempted,
                   seenExited, failedDelivery, sudoKills, killResult, kills>>
    /\ UNCHANGED <<envVars, mainVars>>

\* line 208
waitLock ==
    /\ alive /\ kpc = "wloop" /\ wi <= Len(killedCmds)
    /\ mutex = "free"
    /\ mutex' = "held"
    /\ kpc' = "wcheck"
    /\ UNCHANGED <<sig, snapLen, ki, killedCmds, retryCnt, finish, wi, attempted,
                   seenExited, failedDelivery, sudoKills, killResult, kills>>
    /\ UNCHANGED <<envVars, mainVars>>

\* lines 209-212
waitCheck ==
    /\ alive /\ kpc = "wcheck"
    /\ finish' = IF hasProcessState(commands[killedCmds[wi]]) THEN finish ELSE FALSE
    /\ mutex' = "free"
    /\ wi' = wi + 1
    /\ kpc' = "wloop"
    /\ UNCHANGED <<sig, snapLen, ki, killedCmds, retryCnt, attempted,
                   seenExited, failedDelivery, sudoKills, killResult, kills>>
    /\ UNCHANGED <<envVars, mainVars>>

\* lines 214-220 and 174-178: waitForProcess returns and so does kill, or
\* the next tick is awaited
waitDecide ==
    /\ alive /\ kpc = "wloop" /\ wi > Len(killedCmds)
    /\ LET o == waitOutcome(finish, retryCnt)
       IN  IF o = "again"
           THEN /\ kpc' = "tick"
                /\ UNCHANGED <<killResult, ki, retryCnt, finish, wi>>
           ELSE /\ kpc' = "idle"
                /\ killResult' = o
                \* the locals of kill and waitForProcess end with the call
                /\ ki' = 1 /\ retryCnt' = 0 /\ finish' = TRUE /\ wi' = 1
    /\ UNCHANGED <<mutex, sig, snapLen, killedCmds, attempted,
                   seenExited, failedDelivery, sudoKills, kills>>
    /\ UNCHANGED <<envVars, mainVars>>

----------------------------------------------------------------------------
(* The launcher: Run, Clean and Kill on one runner *)

\* the Options of a launch: every combination of the flags that shape a
\* command line, small strings for the rest
LaunchOptions ==
    [JWT : {<<"jwt">>},
     APIURL : {<<"http://api.example.com">>},
     StoreURL : {<<"http://store.example.com", "/">>},
     JobEnv : {[k \in {"FOO"} |-> <<"1">>]},
     OptionEnv : {[k \in {} |-> <<>>]},
     Image : {<<"node:12">>},
     JobName : {<<"main">>},
     ArtifactsPath : {<<"/tmp/sd-artifacts">>},
     Memory : {<<>>, <<"512m">>},
     SrcPath : {<<"/home/me/src">>},
     UseSudo : BOOLEAN,
     UsePrivileged : BOOLEAN,
     Meta : {"plain", "unsupported"}]

\* the Options under which Kill is interleaved with Run and Clean: with
\* and without privilege elevation
KillOptions ==
    {o \in LaunchOptions : o.Memory = <<>> /\ ~o.UsePrivileged /\ o.Meta = "plain"}

\* newDocker: an empty registry and a free mutex; no call has been made
newDocker ==
    /\ commands = <<>>
    /\ mutex = "free"
    /\ step = 0
    /\ ephase = "none"
    /\ setupResult = "none"
    /\ buildResult = "none"
    /\ runResult = "none"
    /\ cleanWarn = {}
    /\ kpc = "idle"
    /\ sig = [type |-> "syscall", num |-> 15]
    /\ snapLen = 0
    /\ ki = 1
    /\ killedCmds = <<>>
    /\ retryCnt = 0
    /\ finish = TRUE
    /\ wi = 1
    /\ attempted = {}
    /\ seenExited = {}
    /\ failedDelivery = {}
    /\ sudoKills = <<>>
    /\ killResult = "none"
    /\ kills = 0

\* the launcher New returns, nothing called on it yet
InitWith(options) ==
    /\ option \in options
    /\ buildEntry = createBuildEntry(option)
    /\ envIn = defaultEnv(option)
    /\ merged = buildEntry.Environment
    /\ mpc = "idle"
    /\ newDocker


\* the steps of the thread that calls Run and Clean
LaunchNext ==
    \/ Run
    \/ runBuildMarshal
    \/ Clean
    \/ execAppend
    \/ cmdStart
    \/ cmdWait

\* the steps of the thread that calls Kill
KillNext ==
    \/ Kill
    \/ killLock
    \/ killCheck
    \/ killSignal
    \/ waitForProcess
    \/ waitTick
    \/ waitLock
    \/ waitCheck
    \/ waitDecide

Init == InitWith(KillOptions)

Next == LaunchNext \/ KillNext

\* Run and Clean with Kill called from another thread at any moment
Spec == Init /\ [][Next]_vars

\* a runnable goroutine is scheduled and the ticker ticks; whether a process
\* ever starts or exits is left to the operating system
FairSpec == Spec /\ WF_vars(KillNext)

LaunchInit == InitWith(LaunchOptions)

\* Run and Clean alone, for every shape of the command lines
LaunchSpec == LaunchInit /\ [][LaunchNext]_vars

----------------------------------------------------------------------------
(* The build entry assembler on its own: New on every Option of EnvOptions *)

\* raw API URLs: plain, with a trailing slash, with a path, and two that
\* url.Parse rejects (a bad escape, a missing scheme)
APIURLs ==
    {<<"http://api.example.com">>, <<"http://api.example.com", "/">>,
     <<"http://api.example.com", "/", "sd", "/">>,
     <<"http://api.example.com", "/", "%zz">>, <<":", "api.example.com">>}

\* raw store URLs: one that parses and one with a control character
StoreURLs == {<<"http://store.example.com">>, <<"http://store.example.com", "/", "\\x7f">>}

\* every EnvVar over the given keys and values
EnvVars(keys, vals) == UNION {[K -> vals] : K \in SUBSET keys}

EnvOptions ==
    [JWT : {<<"jwt">>},
     APIURL : APIURLs,
     StoreURL : StoreURLs,
     JobEnv : EnvVars({"FOO", "SD_API_URL", "SD_STORE_URL"}, {<<"1">>, <<"2">>}),
     OptionEnv : EnvVars({"FOO", "SD_API_URL", "SD_STORE_URL"}, {<<"1">>, <<"2">>}),
     Image : {<<"node:12">>},
     JobName : {<<"main">>},
     ArtifactsPath : {<<"/tmp/sd-artifacts">>},
     Memory : {<<>>},
     SrcPath : {<<"/home/me/src">>},
     UseSudo : {FALSE},
     UsePrivileged : {FALSE},
     Meta : {"plain"}]

\* the buildEntry of a launch on which New has not run yet
noBuildEntry ==
    [Environment |-> <<>>, Image |-> <<>>, JobName |-> <<>>, ArtifactsPath |-> <<>>,
     MemoryLimit |-> <<>>, SrcPath |-> <<>>, UseSudo |-> FALSE, UsePrivileged |-> FALSE,
     Meta |-> "plain"]

EnvInit ==
    /\ option \in EnvOptions
    /\ buildEntry = noBuildEntry
    /\ envIn \in EnvVars({"FOO", "SD_TOKEN"}, {<<"0">>})
    /\ merged = <<>>
    /\ mpc = "new"
    /\ newDocker

\* New, line 388: createBuildEntry on the Option
New ==
    /\ mpc = "new"
    /\ buildEntry' = createBuildEntry(option)
    /\ mpc' = "idle"
    /\ UNCHANGED <<option, envIn, merged>>
    /\ UNCHANGED <<commands, step, ephase, setupResult, buildResult, runResult, cleanWarn>>
    /\ UNCHANGED killVars

\* mergeEnv on a default layer and the Option's two layers
MergeEnv ==
    /\ merged = <<>>
    /\ merged' = mergeEnv(envIn, option.JobEnv, option.OptionEnv)
    /\ UNCHANGED <<option, buildEntry, envIn>>
    /\ UNCHANGED <<mainVars, killVars>>

EnvNext == New \/ MergeEnv

EnvSpec == EnvInit /\ [][EnvNext]_vars

----------------------------------------------------------------------------
(* Properties *)

\* a call of kill is in progress: it has neither returned nor panicked
killRunning == kpc \notin {"idle", "panicked"}

\* a call of kill has returned
killReturned == kpc = "idle" /\ kills > 0

\* the entries of kill's range that kill has neither seen exited nor
\* attempted delivery on
unhandled == {i \in 1..snapLen : i \notin attempted \cup seenExited}

\* the command ended in an error for execDockerCommand's caller
failed(c) == c.st = "startfailed" \/ (c.st = "exited" /\ c.code # 0)

\* the command ran to a zero exit code
succeeded(c) == c.st = "exited" /\ c.code = 0

\* the registry entries a function appended, in registry order
launchedBy(fn) == SelectSeq(commands, LAMBDA c : c.by = fn)

\* C1: every call of kill eventually returns: once a call is in progress it
\* comes to an end (under FairSpec; a run that dies of a panic is set aside)
C1_KillReturns == killRunning ~> (killReturned \/ ~alive)

\* C2: every entry in kill's range whose exit kill has not observed gets a
\* delivery attempt: a call in progress with such an entry outstanding leads
\* to none being outstanding (under FairSpec; a panic is set aside)
C2_EveryLiveProcessSignalled ==
    (killRunning /\ unhandled # {}) ~> (unhandled = {} \/ ~alive)

\* C3: kill attempts no delivery on an entry that it saw with an exit state
\* at its check of that entry
C3_NoSignalAfterSeenExited == attempted \cap seenExited = {}

\* C3 witness: kill checked an entry, saw it exited, skipped it and returned
C3_Witness == killReturned /\ seenExited # {} /\ attempted = {}

\* C4 as stated: after kill has returned, every entry of its range has an
\* exit state unless kill reported the confirmation timeout
C4_AsStated ==
    killReturned =>
        \A i \in 1..snapLen : hasProcessState(commands[i]) \/ killResult = "timeout"

\* C4 amended: after kill has returned, every entry of its range has an exit
\* state, or its delivery failed in that call, or kill reported the timeout
C4_ExitedOrFailedOrTimeout ==
    killReturned =>
        \A i \in 1..snapLen :
            \/ hasProcessState(commands[i])
            \/ i \in failedDelivery
            \/ killResult = "timeout"

\* C4 witness: kill signalled a running process, saw it exit and returned
C4_Witness ==
    /\ killReturned /\ killResult = "ok" /\ killedCmds # <<>>
    /\ \A i \in 1..Len(killedCmds) : hasProcessState(commands[killedCmds[i]])

\* C5: setupBin launches volume create, volume create (hab), pull, run in
\* that order, launches nothing after a command that failed and nothing else
\* (no rollback), returns an error at the first failure and success only
\* after all four succeeded
C5_SetupBinFailFast ==
    LET setup == launchedBy("setupBin")
        n == Len(setup)
    IN  /\ n <= 4
        /\ \A i \in 1..n : setup[i].argv = commandLine(useSudo, setupBinArgs(i))
        /\ \A i \in 1..n : i < n => succeeded(setup[i])
        /\ \A i \in 1..n : failed(setup[i]) => setupResult = "err"
        /\ setupResult = "err" => (n >= 1 /\ failed(setup[n]))
        /\ setupResult = "ok" => (n = 4 /\ \A i \in 1..4 : succeeded(setup[i]))
        /\ mpc = "setupBin" => commands = setup
        /\ (setupResult = "err" /\ mpc = "runReturned") => commands = setup

\* C5 witness: the second volume create failed and setupBin returned
C5_Witness ==
    /\ setupResult = "err" /\ Len(commands) = 2
    /\ succeeded(commands[1]) /\ failed(commands[2])

\* C6: runBuild launches the pull before the run, launches no run after a
\* failed pull, returns an error when either fails and success only after
\* both succeeded
C6_RunBuildPullThenRun ==
    LET build == launchedBy("runBuild")
        n == Len(build)
    IN  /\ n <= 2
        /\ n >= 1 => build[1].argv = commandLine(useSudo, << <<"pull">>, buildEntry.Image >>)
        /\ n = 2 => /\ succeeded(build[1])
                    /\ build[2].argv[IF useSudo THEN 2 ELSE 1] = <<"docker">>
                    /\ build[2].argv[IF useSudo THEN 3 ELSE 2] = <<"container">>
                    /\ build[2].argv[IF useSudo THEN 4 ELSE 3] = <<"run">>
        /\ \A i \in 1..n : failed(build[i]) => buildResult = "err"
        /\ buildResult = "ok" => (n = 2 /\ succeeded(build[1]) /\ succeeded(build[2]))

\* C6 witness: the pull failed and runBuild returned without a run
C6_Witness ==
    /\ buildResult = "err" /\ Len(launchedBy("runBuild")) = 1
    /\ failed(launchedBy("runBuild")[1])

\* the flags C7 expects before the standard sequence
C7_Flags ==
    (IF buildEntry.UsePrivileged THEN << <<"--privileged">> >> ELSE <<>>)
    \o (IF buildEntry.MemoryLimit # <<>> THEN << <<"-m">> \o buildEntry.MemoryLimit >> ELSE <<>>)

\* C7: the run invocation of runBuild is `container run`, the privileged
\* flag if asked for, the memory-limit flag if a limit is set, and then the
\* standard sequence
C7_RunArgsOrder ==
    \A i \in 1..Len(commands) :
        (commands[i].by = "runBuild" /\ commands[i].n = 2) =>
            commands[i].argv =
                commandLine(useSudo,
                    << <<"container">>, <<"run">> >> \o C7_Flags \o standardOptions(buildEntry))

\* C7 witness: a run invocation with both flags has been appended
C7_Witness ==
    /\ buildEntry.UsePrivileged /\ buildEntry.MemoryLimit # <<>>
    /\ \E i \in 1..Len(commands) : commands[i].by = "runBuild" /\ commands[i].n = 2

\* C8: clean launches the removal of the binary volume and then of the hab
\* volume, whatever the first removal ended with, and then returns
C8_CleanRemovesBoth ==
    LET cl == launchedBy("clean")
        n == Len(cl)
    IN  /\ n <= 2
        /\ \A i \in 1..n : cl[i].argv = commandLine(useSudo, cleanArgs(i))
        /\ mpc = "cleanReturned" => n = 2
        /\ (n = 1 /\ cl[1].st \in {"startfailed", "exited"}) => (mpc = "clean" /\ step = 2)

\* C8 witness: the first removal failed and the second was launched
C8_Witness ==
    /\ mpc = "cleanReturned" /\ Len(launchedBy("clean")) = 2
    /\ failed(launchedBy("clean")[1]) /\ 1 \in cleanWarn

\* C9: mergeEnv returns one map; its keys are the union of the three
\* layers' keys, and a key's value is the override's, else the job's, else
\* the default's
C9_MergePrecedence ==
    merged # <<>> =>
        /\ Len(merged) = 1
        /\ DOMAIN merged[1] =
               (DOMAIN envIn) \cup (DOMAIN option.JobEnv) \cup (DOMAIN option.OptionEnv)
        /\ \A k \in DOMAIN merged[1] :
               merged[1][k] = IF k \in DOMAIN option.OptionEnv THEN option.OptionEnv[k]
                              ELSE IF k \in DOMAIN option.JobEnv THEN option.JobEnv[k]
                              ELSE envIn[k]

\* C9 witness: a key of all three layers, with three different values
C9_Witness ==
    /\ merged # <<>>
    /\ \E k \in (DOMAIN envIn) \cap (DOMAIN option.JobEnv) \cap (DOMAIN option.OptionEnv) :
           /\ envIn[k] # option.JobEnv[k]
           /\ option.JobEnv[k] # option.OptionEnv[k]
           /\ envIn[k] # option.OptionEnv[k]

\* the keys the job or the caller's override declares
declared == (DOMAIN option.JobEnv) \cup (DOMAIN option.OptionEnv)

\* C10 as stated: an URL that does not parse is in the entry's environment
\* unmodified, whatever the job's and the caller's environments are
C10_AsStated ==
    mpc = "idle" =>
        /\ ParseFails(option.APIURL) =>
               buildEntry.Environment[1]["SD_API_URL"] = option.APIURL
        /\ ParseFails(option.StoreURL) =>
               buildEntry.Environment[1]["SD_STORE_URL"] = option.StoreURL

\* C10 amended: an URL that does not parse is in the entry's environment
\* unmodified when neither the job nor the caller's override declares its key
C10_RawURLUnlessDeclared ==
    mpc = "idle" =>
        /\ Len(buildEntry.Environment) = 1
        /\ (ParseFails(option.APIURL) /\ "SD_API_URL" \notin declared) =>
               buildEntry.Environment[1]["SD_API_URL"] = option.APIURL
        /\ (ParseFails(option.StoreURL) /\ "SD_STORE_URL" \notin declared) =>
               buildEntry.Environment[1]["SD_STORE_URL"] = option.StoreURL

\* C10 witness: New ran on an API URL that does not parse, its key undeclared
C10_Witness ==
    /\ mpc = "idle" /\ ParseFails(option.APIURL) /\ "SD_API_URL" \notin declared
    /\ buildEntry.Environment[1]["SD_API_URL"] = option.APIURL

\* the thread that holds docker.mutex: only kill and waitForProcess ever
\* call Lock, execDockerCommand never does
holder == IF mutex = "held" THEN "kill" ELSE "none"

\* a step of execDockerCommand that appends to the registry or writes an
\* entry's Process or ProcessState
registryWrite == commands' # commands

\* C11: every append to the registry and every write of an entry's exit
\* state by execDockerCommand is made while its thread holds the mutex
C11_RegistryWritesUnderLock == [][registryWrite => holder = "run"]_vars

\* C12: the mutex is free whenever kill is about to lock it, is delivering a
\* signal, is waiting for the next tick, or has returned
C12_MutexReleased ==
    (kpc \in {"loop", "signal", "tick", "wloop"} \/ killReturned) => mutex = "free"

\* waitForProcess has inspected every process of this tick
tickInspected == kpc = "wloop" /\ wi > Len(killedCmds)

\* every process handed to waitForProcess has an exit state
allConfirmed == \A i \in 1..Len(killedCmds) : hasProcessState(commands[killedCmds[i]])

\* C13: waitForProcess polls on ticks, at most retryMax + 1 times; it returns
\* success at the first tick at which every process has an exit state and
\* the timeout at tick retryMax + 1 exactly when one still has none; a tick
\* that found a process without exit state before that is followed by another
C13_BoundedPolling ==
    /\ [](retryCnt <= retryMax + 1)
    /\ []((tickInspected /\ finish) => allConfirmed)
    /\ []((tickInspected /\ Len(killedCmds) = 0) => (finish /\ retryCnt = 1))
    /\ [][tickInspected =>
            /\ (killResult' = "ok" /\ kpc' = "idle") <=> finish
            /\ (killResult' = "timeout" /\ kpc' = "idle") <=>
                   (~finish /\ retryCnt = retryMax + 1)
            /\ (kpc' = "tick") <=> (~finish /\ retryCnt < retryMax + 1)]_killVars

\* C13 witness: the tenth tick found a signalled process still without exit
\* state
C13_Witness ==
    /\ tickInspected /\ retryCnt = retryMax + 1 /\ ~finish
    /\ killedCmds # <<>> /\ ~allConfirmed

\* the entries kill waits on
waitedOn == {killedCmds[i] : i \in 1..Len(killedCmds)}

\* the entries whose delivery returned without an error in this call
delivered == {i \in attempted : i \notin failedDelivery /\ hasProcess(commands[i])}

\* C14: the entries kill waits on are exactly those whose delivery succeeded
\* in this call; none of them was skipped as exited or failed delivery, and
\* a timeout is reported only for an entry whose delivery succeeded
C14_WaitsOnDeliveredOnly ==
    /\ waitedOn = delivered
    /\ waitedOn \cap (seenExited \cup failedDelivery) = {}
    /\ killResult = "timeout" =>
           \E i \in delivered : i \in waitedOn

\* C14 witness: delivery to a running process failed and kill returned
\* without waiting on it
C14_Witness ==
    /\ killReturned /\ killResult = "ok" /\ killedCmds = <<>>
    /\ \E i \in failedDelivery : commands[i].st = "running"

\* C15: with privilege elevation and a signal that signum maps to -1, kill
\* spawns no `sudo kill` and waits on no process
C15_NoElevatedKillWithoutSignum ==
    (useSudo /\ signum(sig) = -1) => (sudoKills = <<>> /\ killedCmds = <<>>)

\* C16: Run looks docker up, then calls setupBin, then runBuild; nothing is
\* spawned when the lookup fails, runBuild is not called unless setupBin
\* succeeded, Run succeeds only if both did, and no command is run twice
C16_RunOrder ==
    LET setup == launchedBy("setupBin")
        build == launchedBy("runBuild")
        byRun == SelectSeq(commands, LAMBDA c : c.by # "clean")
    IN  /\ (runResult = "err" /\ setupResult = "none") => byRun = <<>>
        /\ setupResult # "ok" => (build = <<>> /\ buildResult = "none" /\ mpc # "runBuild")
        /\ setupResult = "err" => runResult = "err"
        /\ buildResult = "err" => runResult = "err"
        /\ runResult = "ok" => (setupResult = "ok" /\ buildResult = "ok")
        /\ byRun = setup \o build
        /\ \A i \in 1..Len(setup) : setup[i].n = i
        /\ \A i \in 1..Len(build) : build[i].n = i
        /\ mpc = "idle" => commands = <<>>

\* C16 witness: setupBin failed and Run returned its error without runBuild
C16_Witness ==
    /\ setupResult = "err" /\ runResult = "err" /\ mpc = "runReturned"
    /\ launchedBy("setupBin") # <<>>

\* which *exec.Cmd an entry is: the call that made it and its command line
identity(c) == [by |-> c.by, n |-> c.n, argv |-> c.argv]

\* C17: the registry only grows at its end, by one entry that has not been
\* started; no step removes, reorders or replaces an entry, and no call of
\* execDockerCommand is in it twice
C17_AppendOnly ==
    /\ [][/\ Len(commands') >= Len(commands)
          /\ Len(commands') <= Len(commands) + 1
          /\ \A i \in 1..Len(commands) : identity(commands'[i]) = identity(commands[i])
          /\ Len(commands') = Len(commands) + 1 =>
                 commands'[Len(commands')].st = "created"]_vars
    /\ [](\A i, j \in 1..Len(commands) :
              (commands[i].by = commands[j].by /\ commands[i].n = commands[j].n) => i = j)

\* C17 witness: Run and Clean spawned their eight commands while kill ran
C17_Witness == Len(commands) = 8 /\ kills > 0

\* C18: every entry kill attempts delivery on has a process handle
C18_SignalsStartedOnly == \A i \in attempted : hasProcess(commands[i])

\* C19 as stated: once a kill called after Run's first command was appended
\* has returned, nothing but clean's removals is appended to the registry
C19_AsStated ==
    [][(killReturned /\ snapLen >= 1 /\ Len(commands') > Len(commands)) =>
           commands'[Len(commands')].by = "clean"]_vars

\* C19 amended: a command that kill signalled and that ended in an error is
\* the last command of Run: only clean's removals follow it in the registry
C19_NoCommandAfterKilledFailure ==
    \A i \in waitedOn :
        failed(commands[i]) =>
            \A j \in 1..Len(commands) : j > i => commands[j].by = "clean"

\* C19 witness: kill signalled Run's command in flight, the command ended in
\* an error, kill returned and so did Run, with no later command of Run
C19_Witness ==
    /\ killReturned /\ mpc = "runReturned" /\ runResult = "err"
    /\ \E i \in waitedOn : failed(commands[i]) /\ i = Len(commands)

\* C20: every entry but the most recent one has an exit state, and so has
\* the most recent one once execDockerCommand has returned
C20_OnlyLastWithoutExitState ==
    /\ \A i \in 1..Len(commands) : i < Len(commands) => hasProcessState(commands[i])
    /\ (Len(commands) > 0 /\ ~(mpc \in {"setupBin", "runBuild", "clean"} /\ ephase = "run")) =>
           hasProcessState(commands[Len(commands)])

====
